---- MODULE Spec2Model ----
(***************************************************************************)
(* "The Button Game": the spawn / lifetime / scoring control loop of       *)
(* main.py (ButtonGame), box.py (Box) and box_spawner.py (BoxSpawner).     *)
(*                                                                         *)
(* Time is the pygame clock in milliseconds.  Durations that the source    *)
(* computes in float seconds are kept here in exact integer milliseconds   *)
(* (7.0 s = 7000, 1.2 - 0.06*s = 1200 - 60*s).  For every lifetime the     *)
(* source can produce and every integer elapsed time, the float test       *)
(* lifetime - 0.001*elapsed > 0 agrees with the millisecond test used      *)
(* here; float rounding of the order of 1e-15 s is not represented.        *)
(*                                                                         *)
(* Every call of pygame.time.get_ticks() is a separate read of a           *)
(* monotonic clock: the clock may have advanced between two reads.         *)
(***************************************************************************)
EXTENDS Integers, Sequences, FiniteSets, TLC

VARIABLES
    ticks,                  \* last value returned by pygame.time.get_ticks()
    player_score,           \* ButtonGame.player_score
    player_lives,           \* ButtonGame.player_lives
    boxes,                  \* ButtonGame.boxes: the sprite group, in insertion order
    timestamp_next_spawn,   \* BoxSpawner.timestamp_next_spawn
    next_id,                \* identity of the next Box object to be constructed
    pc,                     \* position of the program inside ButtonGame.run
    todo,                   \* sprites still to visit in "for box in self.boxes"
    clicked,                \* a mouse-button event was drained by this frame's event poll
    mouse,                  \* last value returned by pygame.mouse.get_pos()
    game_over_count,        \* number of times GameOver has been raised
    stdout,                 \* scores printed by run()
    result,                 \* <<>> while run() is executing, <<score>> once it returned
    observed,               \* values returned by the last calls of the functions under test
    last_spawn              \* clock values read and score passed by the last spawn

vars == <<ticks, player_score, player_lives, boxes, timestamp_next_spawn, next_id,
          pc, todo, clicked, mouse, game_over_count, stdout, result, observed,
          last_spawn>>

---------------------------------------------------------------------------
(* Bounds of the model *)

MaxTicks == 17500
ClockStep == 3500
MaxProbeScore == 25
NegProbeScores == 3
MaxProbeTicks == 9000
MaxSpawnerTicks == 2000
MaxSpawnerBoxes == 2
ProbeStep == 100

(* the clock advances by one of these amounts between two reads *)
Deltas == {0, ClockStep}

(* random() returns r / RandDen for r in RandomDraws: values in [0, 1) *)
RandDen == 2

RandomDraws == 0 .. (RandDen - 1)

After(t) == {t + d : d \in {e \in Deltas : t + e <= MaxTicks}}

---------------------------------------------------------------------------
(* Constants of the program *)

MILLISECONDS_PR_SECOND == 1000
START_SCORE == 0
START_LIVES == 3
SPAWN_WINDOW_SIZE_SECONDS == 1
SCREEN_WIDTH == 400
SCREEN_HEIGHT == 400
BoxWidth == 50
BoxHeight == 20

Rect(left, top, width, height) ==
    [left |-> left, top |-> top, right |-> left + width, bottom |-> top + height]

spawn_bounds == Rect(100, 100, SCREEN_WIDTH - 200, SCREEN_HEIGHT - 200)

---------------------------------------------------------------------------
(* box_spawner.py: difficulty curves and random draws *)

minimum_spawn_time_ms_lt5(score) ==
    IF score < 5 THEN 1000
    ELSE IF score >= 20 THEN 100
    ELSE 1200 - 60 * score

minimum_spawn_time_ms(score) ==
    IF score <= 5 THEN 1000
    ELSE IF score >= 20 THEN 100
    ELSE 1200 - 60 * score

lifetime_from_score_ms(score) ==
    IF score <= 5 THEN 7000
    ELSE IF score >= 20 THEN 1000
    ELSE 9000 - 400 * score

random_cooldown_spawn_ms(score, r) ==
    (MILLISECONDS_PR_SECOND * SPAWN_WINDOW_SIZE_SECONDS * r) \div RandDen
        + minimum_spawn_time_ms(score)

lerp_overshoot(a, b, r) == a - ((b - a) * r) \div RandDen

lerp(a, b, r) == a + ((b - a) * r) \div RandDen

random_position_within_bounds(bounds, rx, ry) ==
    <<lerp(bounds.right, bounds.left, rx), lerp(bounds.bottom, bounds.top, ry)>>

---------------------------------------------------------------------------
(* box.py: the Box sprite *)

Box(id, lifetime, topleft, now) ==
    [id |-> id, lifetime |-> lifetime, topleft |-> topleft,
     created_at_timestamp_ms |-> now]

time_left_ms(box, now) == box.lifetime - (now - box.created_at_timestamp_ms)

alive_ge(box, now) == time_left_ms(box, now) >= 0

alive(box, now) == time_left_ms(box, now) > 0

BoxRect(box) == Rect(box.topleft[1], box.topleft[2], BoxWidth, BoxHeight)

collidepoint(rect, p) ==
    /\ rect.left <= p[1] /\ p[1] < rect.right
    /\ rect.top <= p[2] /\ p[2] < rect.bottom

is_hit_by_mouse(box, m) == collidepoint(BoxRect(box), m)

(* positions the pointer is observed at: off every box, and inside the box *)
(* rectangle of two of the spawn positions                                 *)
MousePoints ==
    { <<0, 0>>,
      <<spawn_bounds.right + 1, spawn_bounds.bottom + 1>>,
      <<lerp(spawn_bounds.right, spawn_bounds.left, 1) + 1, spawn_bounds.bottom + 1>> }

---------------------------------------------------------------------------
(* main.py: the steps of update_sprites *)

LivesAfterExpiry_two(lives) == lives - 2

LivesAfterExpiry(lives) == lives - 1

ScoreAfterHit_dec(score) == score - 1

ScoreAfterHit(score) == score + 1

GameIsOver_strict(lives) == lives < 0

GameIsOver_early(lives) == lives <= 1

GameIsOver(lives) == lives <= 0

Remove_none(seq, id) == seq

Remove(seq, id) == SelectSeq(seq, LAMBDA b : b.id # id)

Ids(seq) == {seq[i].id : i \in 1 .. Len(seq)}

---------------------------------------------------------------------------
(* box_spawner.py: the spawner *)

reset_spawn_timer_nocooldown(score, now, r) == now

reset_spawn_timer_score0(score, now, r) == now + random_cooldown_spawn_ms(0, r)

reset_spawn_timer(score, now, r) == now + random_cooldown_spawn_ms(score, r)

SpawnDue_gt(now, next_spawn) == now > next_spawn

SpawnDue_always(now, next_spawn) == TRUE

(* BoxSpawner.spawn: the test of the clock against the timer *)
SpawnDue(now, next_spawn) == now >= next_spawn

spawn_now(score, id, rx, ry, now) ==
    Box(id, lifetime_from_score_ms(score),
        random_position_within_bounds(spawn_bounds, rx, ry), now)

(* what a spawn leaves behind for the properties: the clock value read by  *)
(* BoxSpawner.spawn (none for a forced spawn), the clock value read by     *)
(* reset_spawn_timer and the score passed to spawn_now                     *)
SpawnLog(check, reset, score) == [check |-> check, reset |-> reset, score |-> score]

---------------------------------------------------------------------------
(* State after ButtonGame.__init__: the spawner is constructed, then one   *)
(* box is force-spawned with the default score 0, which resets the timer.  *)

Init ==
    \E t_reset \in After(0), rc \in RandomDraws, rx \in RandomDraws, ry \in RandomDraws :
      \E t_created \in After(t_reset) :
        /\ ticks = t_created
        /\ player_score = START_SCORE
        /\ player_lives = START_LIVES
        /\ boxes = <<spawn_now(0, 1, rx, ry, t_created)>>
        /\ timestamp_next_spawn = reset_spawn_timer(0, t_reset, rc)
        /\ next_id = 2
        /\ pc = "poll"
        /\ todo = <<>>
        /\ clicked = FALSE
        /\ mouse = <<0, 0>>
        /\ game_over_count = 0
        /\ stdout = <<>>
        /\ result = <<>>
        /\ observed = <<>>
        /\ last_spawn = SpawnLog(<<>>, t_reset, 0)

---------------------------------------------------------------------------
(* main.py: one frame of gameloop *)

(* game_is_closed(): drains the event queue; only QUIT is looked at *)
PollEvents ==
    /\ pc = "poll"
    /\ \E quit \in BOOLEAN, click \in BOOLEAN :
         /\ clicked' = click
         /\ pc' = IF quit THEN "closed" ELSE "spawn"
    /\ UNCHANGED <<ticks, player_score, player_lives, boxes, timestamp_next_spawn,
                   next_id, todo, mouse, game_over_count, stdout, result, observed, last_spawn>>

(* the values a read of the clock can return after it returned t, on a     *)
(* clock that advances by 0 or step between two reads and stops at max     *)
LaterReads(t, step, max) == {t + d : d \in {e \in {0, step} : t + e <= max}}

(* spawn_new_box_if_possible(): BoxSpawner.spawn, then boxes.add *)
spawn_new_box_if_possible(step, max) ==
    \E t_check \in LaterReads(ticks, step, max) :
      IF SpawnDue(t_check, timestamp_next_spawn)
      THEN \E t_reset \in LaterReads(t_check, step, max), rc \in RandomDraws,
              rx \in RandomDraws, ry \in RandomDraws :
             \E t_created \in LaterReads(t_reset, step, max) :
               /\ timestamp_next_spawn' = reset_spawn_timer(player_score, t_reset, rc)
               /\ boxes' = Append(boxes, spawn_now(player_score, next_id, rx, ry, t_created))
               /\ next_id' = next_id + 1
               /\ ticks' = t_created
               /\ last_spawn' = SpawnLog(<<t_check>>, t_reset, player_score)
      ELSE /\ ticks' = t_check
           /\ UNCHANGED <<boxes, timestamp_next_spawn, next_id, last_spawn>>

SpawnNewBoxIfPossible ==
    /\ pc = "spawn"
    /\ spawn_new_box_if_possible(ClockStep, MaxTicks)
    /\ pc' = "update"
    /\ UNCHANGED <<player_score, player_lives, todo, clicked, mouse,
                   game_over_count, stdout, result, observed>>

(* update_sprites(), first part: boxes.update() redraws every box from the *)
(* clock, then the for loop takes a snapshot of the group                  *)
BeginUpdate ==
    /\ pc = "update"
    /\ ticks' \in After(ticks)
    /\ todo' = boxes
    /\ pc' = "loop"
    /\ UNCHANGED <<player_score, player_lives, boxes, timestamp_next_spawn, next_id,
                   clicked, mouse, game_over_count, stdout, result, observed, last_spawn>>

(* update_sprites(), one iteration of the for loop *)
LoopStep ==
    /\ pc = "loop"
    /\ todo # <<>>
    /\ \E t \in After(ticks), m \in MousePoints :
         LET box == Head(todo)
             expired == ~alive(box, t)
             hit == is_hit_by_mouse(box, m)
         IN /\ ticks' = t
            /\ mouse' = m
            /\ player_lives' = IF expired THEN LivesAfterExpiry(player_lives)
                               ELSE player_lives
            /\ player_score' = IF hit THEN ScoreAfterHit(player_score)
                               ELSE player_score
            /\ boxes' = IF expired \/ hit THEN Remove(boxes, box.id) ELSE boxes
    /\ todo' = Tail(todo)
    /\ UNCHANGED <<timestamp_next_spawn, next_id, pc, clicked,
                   game_over_count, stdout, result, observed, last_spawn>>

(* update_sprites(), after the loop: raise GameOver or go on to draw *)
EndUpdate ==
    /\ pc = "loop"
    /\ todo = <<>>
    /\ IF GameIsOver(player_lives)
       THEN /\ pc' = "game_over"
            /\ game_over_count' = game_over_count + 1
       ELSE /\ pc' = "tick"
            /\ UNCHANGED game_over_count
    /\ UNCHANGED <<ticks, player_score, player_lives, boxes, timestamp_next_spawn,
                   next_id, todo, clicked, mouse, stdout, result, observed, last_spawn>>

(* draw_game_objects(), display.update(), clock.tick(FPS) *)
Tick ==
    /\ pc = "tick"
    /\ ticks' \in After(ticks)
    /\ pc' = "poll"
    /\ UNCHANGED <<player_score, player_lives, boxes, timestamp_next_spawn, next_id,
                   todo, clicked, mouse, game_over_count, stdout, result, observed, last_spawn>>

HandleGameOver_retry ==
    /\ pc = "game_over"
    /\ stdout' = Append(stdout, player_score)
    /\ result' = <<>>
    /\ pc' = "poll"
    /\ UNCHANGED <<ticks, player_score, player_lives, boxes, timestamp_next_spawn,
                   next_id, todo, clicked, mouse, game_over_count, observed, last_spawn>>

(* run(): GameOver propagates out of gameloop and is caught; the score is  *)
(* printed and returned                                                    *)
HandleGameOver ==
    /\ pc = "game_over"
    /\ stdout' = Append(stdout, player_score)
    /\ result' = <<player_score>>
    /\ pc' = "done"
    /\ UNCHANGED <<ticks, player_score, player_lives, boxes, timestamp_next_spawn,
                   next_id, todo, clicked, mouse, game_over_count, observed, last_spawn>>

(* run(): gameloop returned because the window was closed *)
ReturnClosed ==
    /\ pc = "closed"
    /\ result' = <<player_score>>
    /\ pc' = "done"
    /\ UNCHANGED <<ticks, player_score, player_lives, boxes, timestamp_next_spawn,
                   next_id, todo, clicked, mouse, game_over_count, stdout, observed, last_spawn>>

Next ==
    \/ PollEvents
    \/ SpawnNewBoxIfPossible
    \/ BeginUpdate
    \/ LoopStep
    \/ EndUpdate
    \/ Tick
    \/ HandleGameOver
    \/ ReturnClosed

Spec == Init /\ [][Next]_vars

---------------------------------------------------------------------------
(* Properties of the game loop, checked under Spec *)

(* the loop is about to visit Head(todo) *)
Visiting == pc = "loop" /\ todo # <<>>

(* C1: a box that one loop iteration finds both expired and under the      *)
(* pointer, in a frame with a click, costs one life, is removed, and       *)
(* leaves the score unchanged.                                             *)
ExpiredAndHitIsExpiryOnly ==
    [][ ( /\ Visiting
          /\ todo' = Tail(todo)
          /\ clicked
          /\ ~alive(Head(todo), ticks')
          /\ is_hit_by_mouse(Head(todo), mouse') )
        => ( /\ player_lives' = player_lives - 1
             /\ Head(todo).id \notin Ids(boxes')
             /\ player_score' = player_score ) ]_vars

(* C2: the score changes only in a loop iteration of a frame that drained  *)
(* a click, for a box under the pointer; in a frame without a click the    *)
(* score is unchanged and a box that is still alive is not removed.        *)
ScoreOnlyOnClick ==
    [][ /\ (player_score' # player_score)
           => ( /\ Visiting
                /\ clicked
                /\ is_hit_by_mouse(Head(todo), mouse') )
        /\ (Visiting /\ ~clicked /\ todo' = Tail(todo) /\ alive(Head(todo), ticks'))
           => Head(todo).id \in Ids(boxes') ]_vars

(* C4: at the end of a frame that goes on and at the start of every frame, *)
(* lives is between 1 and the starting number of lives.                    *)
LivesAtFrameBoundary ==
    pc \in {"tick", "poll"} => player_lives \in 1 .. START_LIVES

LivesAtFrameBoundaryWitness ==
    pc = "poll" /\ player_lives = 1 /\ player_score > 0

(* C5: GameOver is raised at the end of a frame exactly when lives <= 0 *)
(* there, and no step of a later frame runs with lives <= 0.            *)
GameOverExactlyWhenNoLives ==
    /\ [](player_lives <= 0 => pc \in {"loop", "game_over", "done"})
    /\ [][ /\ (pc' = "game_over" /\ pc # "game_over")
              => (pc = "loop" /\ todo = <<>> /\ player_lives <= 0)
           /\ (pc = "loop" /\ todo = <<>> /\ pc' # pc)
              => (pc' = "game_over" <=> player_lives <= 0) ]_vars

GameOverExactlyWhenNoLivesWitness ==
    pc = "game_over" /\ player_lives = 0 /\ player_score > 0

(* C6: a session in which no box was ever hit ends in GameOver with lives  *)
(* exactly 0 (three boxes expired) and score 0.                            *)
NoHitSessionEndsAtZero ==
    (game_over_count > 0 /\ player_score = 0) => player_lives = 0

(* C7: GameOver is raised at most once; after it no step of a frame runs,  *)
(* score, lives, boxes and the spawn timer never change, and run() has     *)
(* received it: the score is printed once and returned.                    *)
GameOverIsTerminal ==
    /\ [](game_over_count <= 1)
    /\ []((game_over_count > 0 /\ pc = "done")
            => (stdout = <<player_score>> /\ result = <<player_score>>))
    /\ [][ game_over_count > 0
           => ( /\ pc' \in {"game_over", "done"}
                /\ UNCHANGED <<player_score, player_lives, boxes,
                               timestamp_next_spawn, ticks, game_over_count>> ) ]_vars

GameOverIsTerminalWitness ==
    pc = "done" /\ game_over_count = 1 /\ stdout = <<player_score>>

(* C8: the score starts at 0, is never negative and never decreases *)
ScoreNeverDecreases ==
    /\ player_score = 0
    /\ [](player_score >= 0)
    /\ [][player_score' >= player_score]_vars

ScoreNeverDecreasesWitness ==
    player_score >= 2 /\ pc = "done"

---------------------------------------------------------------------------
(* The difficulty curves on their own: a spawner that is asked to spawn    *)
(* with any score in ProbeScores.  observed holds what                     *)
(* minimum_spawn_time_seconds and lifetime_from_score returned.            *)

ProbeScores == (0 - NegProbeScores) .. MaxProbeScore

InitCurves ==
    /\ \E rc \in RandomDraws, rx \in RandomDraws, ry \in RandomDraws :
         /\ boxes = <<spawn_now(START_SCORE, 1, rx, ry, 0)>>
         /\ timestamp_next_spawn = reset_spawn_timer(START_SCORE, 0, rc)
    /\ player_score = START_SCORE
    /\ observed = <<minimum_spawn_time_ms(START_SCORE), lifetime_from_score_ms(START_SCORE)>>
    /\ ticks = 0
    /\ player_lives = START_LIVES
    /\ next_id = 2
    /\ last_spawn = SpawnLog(<<>>, 0, START_SCORE)
    /\ pc = "curves"
    /\ todo = <<>>
    /\ clicked = FALSE
    /\ mouse = <<0, 0>>
    /\ game_over_count = 0
    /\ stdout = <<>>
    /\ result = <<>>

CurveSpawn ==
    /\ \E score \in ProbeScores, rc \in RandomDraws,
          rx \in RandomDraws, ry \in RandomDraws :
         /\ player_score' = score
         /\ boxes' = <<spawn_now(score, 1, rx, ry, ticks)>>
         /\ timestamp_next_spawn' = reset_spawn_timer(score, ticks, rc)
         /\ observed' = <<minimum_spawn_time_ms(score), lifetime_from_score_ms(score)>>
         /\ last_spawn' = SpawnLog(<<>>, ticks, score)
    /\ UNCHANGED <<ticks, player_lives, next_id, pc, todo, clicked, mouse,
                   game_over_count, stdout, result>>

NextCurves == CurveSpawn

SpecCurves == InitCurves /\ [][NextCurves]_vars

(* C3: both curves are non-increasing in the score: a spawn with a higher  *)
(* score never has a longer minimum cooldown or a longer lifetime.         *)
CurvesMonotone ==
    [][ player_score < player_score'
        => ( /\ observed[1] >= observed'[1]
             /\ observed[2] >= observed'[2]
             /\ boxes[1].lifetime >= boxes'[1].lifetime ) ]_vars

(* C9: the values of both curves on the three score ranges, and strict     *)
(* decrease between 5 and 20 (exclusive).                                  *)
CurveValues ==
    /\ []( /\ player_score <= 5 => observed = <<1000, 7000>>
           /\ player_score >= 20 => observed = <<100, 1000>>
           /\ (5 < player_score /\ player_score < 20)
              => observed = <<1200 - 60 * player_score, 9000 - 400 * player_score>>
           /\ boxes[1].lifetime = observed[2] )
    /\ [][ (5 < player_score /\ player_score < player_score' /\ player_score' < 20)
           => (observed'[1] < observed[1] /\ observed'[2] < observed[2]) ]_vars

CurveValuesWitness ==
    player_score = 25 /\ observed = <<100, 1000>> /\ boxes[1].lifetime = 1000

---------------------------------------------------------------------------
(* One box on its own, looked at as the clock advances.  observed holds    *)
(* what time_left_seconds (in ms) and alive returned at the last look.     *)

InitBox ==
    /\ \E score \in ProbeScores, now \in {0, 1000} :
         /\ player_score = score
         /\ boxes = <<spawn_now(score, 1, 0, 0, now)>>
         /\ ticks = now
    /\ observed = <<time_left_ms(boxes[1], ticks), alive(boxes[1], ticks)>>
    /\ timestamp_next_spawn = 0
    /\ player_lives = START_LIVES
    /\ next_id = 2
    /\ last_spawn = SpawnLog(<<>>, 0, START_SCORE)
    /\ pc = "box"
    /\ todo = <<>>
    /\ clicked = FALSE
    /\ mouse = <<0, 0>>
    /\ game_over_count = 0
    /\ stdout = <<>>
    /\ result = <<>>

LookAtBox ==
    /\ \E d \in {ProbeStep, 5 * ProbeStep} :
         /\ ticks + d <= MaxProbeTicks
         /\ ticks' = ticks + d
    /\ observed' = <<time_left_ms(boxes[1], ticks'), alive(boxes[1], ticks')>>
    /\ UNCHANGED <<player_score, player_lives, boxes, timestamp_next_spawn, next_id, pc,
                   todo, clicked, mouse, game_over_count, stdout, result, last_spawn>>

NextBox == LookAtBox

SpecBox == InitBox /\ [][NextBox]_vars

(* C10: the time left is lifetime - elapsed and strictly decreases with    *)
(* the clock; the box is alive exactly before created + lifetime and,      *)
(* once not alive, never alive again (7.0 s created at 1000: 6.5 s left    *)
(* and alive at 1500, -0.1 s left and not alive at 8100).                  *)
BoxTimer ==
    /\ []( /\ observed[1] = boxes[1].lifetime - (ticks - boxes[1].created_at_timestamp_ms)
           /\ observed[2] <=> (ticks < boxes[1].created_at_timestamp_ms + boxes[1].lifetime)
           /\ ( /\ boxes[1].lifetime = 7000
                /\ boxes[1].created_at_timestamp_ms = 1000
                /\ ticks = 1500 ) => observed = <<6500, TRUE>>
           /\ ( /\ boxes[1].lifetime = 7000
                /\ boxes[1].created_at_timestamp_ms = 1000
                /\ ticks = 8100 ) => observed = <<-100, FALSE>> )
    /\ [][ ticks' > ticks
           => ( /\ observed'[1] < observed[1]
                /\ (~observed[2]) => (~observed'[2]) ) ]_vars

BoxTimerWitness ==
    /\ boxes[1].lifetime = 7000
    /\ boxes[1].created_at_timestamp_ms = 1000
    /\ ticks = 8100
    /\ observed = <<-100, FALSE>>

---------------------------------------------------------------------------
(* Further properties of the game loop, checked under Spec *)

SPAWN_WINDOW_SIZE_MS == MILLISECONDS_PR_SECOND * SPAWN_WINDOW_SIZE_SECONDS

InBounds(p, bounds) ==
    /\ bounds.left <= p[1] /\ p[1] <= bounds.right
    /\ bounds.top <= p[2] /\ p[2] <= bounds.bottom

NewestBox(seq) == seq[Len(seq)]

(* C11: every box of the group, forced or timed, was placed inside the     *)
(* spawner's bounds.                                                       *)
PositionsWithinBounds ==
    \A i \in 1 .. Len(boxes) : InBounds(boxes[i].topleft, spawn_bounds)

PositionsWithinBoundsWitness ==
    \E i \in 1 .. Len(boxes) :
        /\ boxes[i].id >= 2
        /\ boxes[i].topleft[1] < spawn_bounds.right
        /\ boxes[i].topleft[2] < spawn_bounds.bottom

(* C12: a session starts with score 0, 3 lives and exactly one box, which  *)
(* was spawned with score 0 (lifetime 7.0 s) without any test of the timer *)
(* and reset the timer to a time strictly after the clock value it read;   *)
(* polling events at the start of a frame changes none of this.            *)
InitialSession ==
    /\ player_score = 0
    /\ player_lives = 3
    /\ Len(boxes) = 1
    /\ boxes[1].lifetime = 7000
    /\ last_spawn.check = <<>>
    /\ last_spawn.score = 0
    /\ timestamp_next_spawn > last_spawn.reset
    /\ [][ pc = "poll"
           => UNCHANGED <<player_score, player_lives, boxes, timestamp_next_spawn>> ]_vars

InitialSessionWitness ==
    /\ pc = "spawn"
    /\ next_id = 2
    /\ player_lives = 3
    /\ Len(boxes) = 1
    /\ last_spawn.check = <<>>
    /\ timestamp_next_spawn = last_spawn.reset + 1500

(* C13: lives is never negative and never above its starting value, in any *)
(* state, the states inside the loop of update_sprites included.           *)
LivesNeverNegative ==
    player_lives \in 0 .. START_LIVES

(* C14: one clock value per frame: a spawned box is created at the clock   *)
(* value that was tested against the timer and from which the new timer    *)
(* was computed, and every expiry test of the frame uses that same value.  *)
OneSnapshotPerFrame ==
    [][ /\ (pc = "spawn" /\ next_id' # next_id)
           => ( /\ last_spawn'.check = <<last_spawn'.reset>>
                /\ NewestBox(boxes').created_at_timestamp_ms = last_spawn'.reset )
        /\ (pc \in {"update", "loop"}) => ticks' = ticks ]_vars

(* C17: one iteration of the loop takes exactly one life for an expired    *)
(* box and removes it, takes none otherwise; a box that is neither expired *)
(* nor under the pointer stays as it is and changes neither score nor      *)
(* lives; no other box is touched, and lives changes nowhere else.         *)
ResolutionStepEffect ==
    [][ /\ (Visiting /\ todo' = Tail(todo))
           => ( /\ player_lives' = IF ~alive(Head(todo), ticks')
                                   THEN player_lives - 1 ELSE player_lives
                /\ ~alive(Head(todo), ticks') => Head(todo).id \notin Ids(boxes')
                /\ (alive(Head(todo), ticks') /\ ~is_hit_by_mouse(Head(todo), mouse'))
                   => ( /\ boxes' = boxes
                        /\ player_score' = player_score
                        /\ player_lives' = player_lives )
                /\ \A i \in 1 .. Len(boxes) :
                     boxes[i].id # Head(todo).id
                     => \E j \in 1 .. Len(boxes') : boxes'[j] = boxes[i] )
        /\ (player_lives' # player_lives) => Visiting ]_vars

ResolutionStepEffectWitness ==
    /\ pc = "loop"
    /\ todo = <<>>
    /\ player_lives = 2
    /\ player_score = 0
    /\ boxes # <<>>

(* C18: a box that the loop finds expired is removed in that iteration and *)
(* never comes back; a box is kept only if it was found alive; the loop    *)
(* visits every box of the group, so nothing found expired is carried into *)
(* a later frame.                                                          *)
ExpiredNeverCarried ==
    /\ [](\A i \in 1 .. Len(boxes) : boxes[i].id < next_id)
    /\ [](pc \in {"tick", "poll", "spawn", "update"} => todo = <<>>)
    /\ [][ /\ (Visiting /\ todo' = Tail(todo))
              => ( /\ Head(todo).id \in Ids(boxes') => alive(Head(todo), ticks')
                   /\ Head(todo).id \notin Ids(todo') )
           /\ (pc = "update" /\ pc' = "loop") => todo' = boxes
           /\ Ids(boxes') \subseteq (Ids(boxes) \cup {next_id})
           /\ next_id' >= next_id ]_vars

ExpiredNeverCarriedWitness ==
    /\ pc = "tick"
    /\ player_lives < START_LIVES
    /\ player_score = 0
    /\ boxes # <<>>
    /\ \A i \in 1 .. Len(boxes) : alive(boxes[i], ticks)

(* C19: at most one box is spawned per frame, in the spawn step; it is     *)
(* spawned (tested and created) no earlier than the timer set by the       *)
(* previous spawn, which is at least the minimum cooldown for the score of *)
(* the previous spawn after the clock value that spawn read.               *)
SpawnSpacing ==
    [][ /\ Len(boxes') <= Len(boxes) + 1
        /\ next_id' \in {next_id, next_id + 1}
        /\ (next_id' # next_id)
           => ( /\ pc = "spawn"
                /\ last_spawn'.check[1] >= timestamp_next_spawn
                /\ NewestBox(boxes').created_at_timestamp_ms >= timestamp_next_spawn
                /\ timestamp_next_spawn
                     >= last_spawn.reset + minimum_spawn_time_ms(last_spawn.score)
                /\ last_spawn.check # <<>>
                   => last_spawn'.check[1] - last_spawn.check[1]
                        >= minimum_spawn_time_ms(last_spawn.score) ) ]_vars

SpawnSpacingWitness ==
    /\ pc = "update"
    /\ next_id >= 4
    /\ last_spawn.check # <<>>
    /\ Len(boxes) >= 2

---------------------------------------------------------------------------
(* The spawner on its own: spawn_new_box_if_possible called again and      *)
(* again, with a score that rises between calls, on a clock fine enough    *)
(* for a call to fall exactly on the timer.                                *)

InitSpawner ==
    /\ \E rc \in RandomDraws, rx \in RandomDraws, ry \in RandomDraws :
         /\ boxes = <<spawn_now(0, 1, rx, ry, 0)>>
         /\ timestamp_next_spawn = reset_spawn_timer(0, 0, rc)
    /\ player_score \in ProbeScores
    /\ last_spawn = SpawnLog(<<>>, 0, 0)
    /\ ticks = 0
    /\ observed = <<>>
    /\ player_lives = START_LIVES
    /\ next_id = 2
    /\ pc = "spawner"
    /\ todo = <<>>
    /\ clicked = FALSE
    /\ mouse = <<0, 0>>
    /\ game_over_count = 0
    /\ stdout = <<>>
    /\ result = <<>>

SpawnerCall ==
    /\ Len(boxes) < MaxSpawnerBoxes
    /\ spawn_new_box_if_possible(5 * ProbeStep, MaxSpawnerTicks)
    /\ UNCHANGED <<player_score, player_lives, pc, todo, clicked, mouse,
                   game_over_count, stdout, result, observed>>

SpawnerScore ==
    /\ player_score < MaxProbeScore
    /\ player_score' = player_score + 1
    /\ UNCHANGED <<ticks, player_lives, boxes, timestamp_next_spawn, next_id, pc, todo,
                   clicked, mouse, game_over_count, stdout, result, observed, last_spawn>>

NextSpawner == SpawnerCall \/ SpawnerScore

SpecSpawner == InitSpawner /\ [][NextSpawner]_vars

====
